---- MODULE Spec2Model ----
(***************************************************************************)
(* Bootstrap of a nebula node: Main (configuration consumption, system     *)
(* set-up, worker start-up), the command goroutine and shutdownBlock.      *)
(***************************************************************************)
EXTENDS Integers, Sequences, FiniteSets, TLC

(***************************************************************************)
(* Bounds of the model.                                                    *)
(***************************************************************************)
\* width of a modelled IPv4 address, in bits
AddrBits == 3
\* number of peers that may own a HostInfo in the main HostMap
NumPeers == 2
\* number of commands the embedding host sends on commandChan
MaxCmds == 2
\* number of packets the pipeline workers process
MaxPackets == 1

(***************************************************************************)
(* Program constants.                                                      *)
(***************************************************************************)
\* uint16(port): a port is narrowed to 16 bits
PortModulus == 65536

Pow2(n) == 2 ^ n

(***************************************************************************)
(* Addresses, CIDRs and the conversions Main applies to them.              *)
(***************************************************************************)
\* the network number of ip under a prefix of the given length
MaskIP(ip, bits) == ip - (ip % Pow2(AddrBits - bits))

\* net.ParseIP: an unparsable text yields nil
NilIP == [nil |-> TRUE, ip |-> 0]
ParseIP(raw) == IF raw.ok THEN [nil |-> FALSE, ip |-> raw.ip] ELSE NilIP

\* (*net.IPNet).Contains: false for a nil IP, else equal network numbers
Contains(cidr, ip) ==
    /\ ~ip.nil
    /\ MaskIP(ip.ip, cidr.bits) = MaskIP(cidr.ip, cidr.bits)

\* net.ParseCIDR: the returned IPNet holds the network number, not the host
ParseCIDR(raw) == [ip |-> MaskIP(raw.ip, raw.bits), bits |-> raw.bits]

\* (*net.IPNet).String of a parsed CIDR: canonical "ip/bits"
CidrString(n) == <<n.ip, n.bits>>

\* cs.certificate.Details.Ips[0]: the node's address and subnet (lower half)
tunCidr == [ip |-> 1, bits |-> 1]

InsideIP(k) == k
OutsideIP(k) == Pow2(AddrBits) - 1 - k

\* raw texts of the configuration
GoodHost(ip) == [ok |-> TRUE, ip |-> ip]
BadHost == [ok |-> FALSE, ip |-> 0]
GoodCidr(ip, bits) == [ok |-> TRUE, ip |-> ip, bits |-> bits]
BadCidr == [ok |-> FALSE, ip |-> 0, bits |-> 0]
NoLocalRange == [set |-> FALSE, ok |-> FALSE, ip |-> 0, bits |-> 0]
LocalRange(c) == [set |-> TRUE, ok |-> c.ok, ip |-> c.ip, bits |-> c.bits]

(***************************************************************************)
(* strconv.Atoi and the uint16 conversion of a static_host_map port.       *)
(***************************************************************************)
Digits == <<"0", "1", "2", "3", "4", "5", "6", "7", "8", "9">>
IsDigit(c) == \E i \in 1..10 : Digits[i] = c
DigitVal(c) == (CHOOSE i \in 1..10 : Digits[i] = c) - 1

RECURSIVE DigitsVal(_)
DigitsVal(s) ==
    IF s = <<>> THEN 0
    ELSE 10 * DigitsVal(SubSeq(s, 1, Len(s) - 1)) + DigitVal(s[Len(s)])

AllDigits(s) == s # <<>> /\ \A i \in 1..Len(s) : IsDigit(s[i])

\* strconv.Atoi: optional sign, then digits; (0, err) on a syntax error
Atoi(s) ==
    IF s # <<>> /\ s[1] \in {"-", "+"}
    THEN IF AllDigits(Tail(s))
         THEN [err |-> FALSE,
               val |-> IF s[1] = "-" THEN 0 - DigitsVal(Tail(s)) ELSE DigitsVal(Tail(s))]
         ELSE [err |-> TRUE, val |-> 0]
    ELSE IF AllDigits(s)
         THEN [err |-> FALSE, val |-> DigitsVal(s)]
         ELSE [err |-> TRUE, val |-> 0]

\* uint16(port)
Uint16(n) == n % PortModulus

\* NewUDPAddr(ip2int(ip), uint16(port))
NewUDPAddr(ip, port) == [ip |-> ip, port |-> port]

(***************************************************************************)
(* The configuration handed to Main.  Calls into packages outside this     *)
(* file (CA, certificate, firewall, routes, sshd, tun, listener, ...) are  *)
(* fallible; config.faults names the ones that return an error.            *)
(***************************************************************************)
PortText(a, b, c, d) == <<a, b, c, d>>
StaticValue(host, port) == [host |-> host, hasPort |-> TRUE, port |-> port]
StaticNoColon(host) == [host |-> host, hasPort |-> FALSE, port |-> <<>>]
StaticEntry(key, list, vals) == [key |-> key, list |-> list, vals |-> vals]

GoodPort == PortText("4", "2", "4", "2")
GoodValue == StaticValue(GoodHost(OutsideIP(1)), GoodPort)

BaseConfig ==
    [faults |-> {},
     sshd_enabled |-> TRUE,
     punch |-> TRUE,
     listen_port_dynamic |-> TRUE,
     cipher |-> "aes",
     preferred_ranges |-> <<GoodCidr(OutsideIP(2), 2)>>,
     local_range |-> NoLocalRange,
     lighthouse_hosts |-> <<GoodHost(InsideIP(2))>>,
     static_host_map |-> {StaticEntry(GoodHost(InsideIP(2)), TRUE, <<GoodValue>>)}]

\* the fallible calls of Main, by the name of what they load or open
FaultNames ==
    {"logfile", "yaml", "logger", "ca", "cert", "firewall", "routes",
     "unsafe_routes", "sshd", "tun", "udp", "localaddr", "remote_allow_list",
     "local_allow_list", "lh_static", "interface", "stats"}

StaticOf(key, val) == {StaticEntry(key, FALSE, <<val>>)}

SettingNames ==
    {"none", "sshd_disabled", "punch_off", "fixed_port", "cipher_chachapoly",
     "cipher_unknown", "pref_bad", "pref_second_bad", "local_bad", "local_same",
     "local_new", "lh_outside", "lh_unparsable", "static_outside",
     "static_unparsable_key", "static_port_text", "static_port_wide",
     "static_port_zero", "static_no_colon", "static_unresolvable"}

\* BaseConfig with one setting changed
WithSetting(d) ==
    CASE d = "sshd_disabled" -> [BaseConfig EXCEPT !.sshd_enabled = FALSE]
      [] d = "punch_off" -> [BaseConfig EXCEPT !.punch = FALSE]
      [] d = "fixed_port" -> [BaseConfig EXCEPT !.listen_port_dynamic = FALSE]
      [] d = "cipher_chachapoly" -> [BaseConfig EXCEPT !.cipher = "chachapoly"]
      [] d = "cipher_unknown" -> [BaseConfig EXCEPT !.cipher = "rot13"]
      [] d = "pref_bad" -> [BaseConfig EXCEPT !.preferred_ranges = <<BadCidr>>]
      [] d = "pref_second_bad" ->
            [BaseConfig EXCEPT !.preferred_ranges = <<GoodCidr(OutsideIP(2), 2), BadCidr>>]
      [] d = "local_bad" -> [BaseConfig EXCEPT !.local_range = LocalRange(BadCidr)]
      [] d = "local_same" ->
            [BaseConfig EXCEPT !.local_range = LocalRange(GoodCidr(OutsideIP(3), 2))]
      [] d = "local_new" ->
            [BaseConfig EXCEPT !.local_range = LocalRange(GoodCidr(OutsideIP(0), 3))]
      [] d = "lh_outside" ->
            [BaseConfig EXCEPT !.lighthouse_hosts = <<GoodHost(InsideIP(2)), GoodHost(OutsideIP(0))>>]
      [] d = "lh_unparsable" ->
            [BaseConfig EXCEPT !.lighthouse_hosts = <<BadHost>>]
      [] d = "static_outside" ->
            [BaseConfig EXCEPT !.static_host_map =
                @ \cup StaticOf(GoodHost(OutsideIP(0)), GoodValue)]
      [] d = "static_unparsable_key" ->
            [BaseConfig EXCEPT !.static_host_map = @ \cup StaticOf(BadHost, GoodValue)]
      [] d = "static_port_text" ->
            [BaseConfig EXCEPT !.static_host_map =
                StaticOf(GoodHost(InsideIP(3)),
                         StaticValue(GoodHost(OutsideIP(1)), <<"a", "b", "c">>))]
      [] d = "static_port_wide" ->
            [BaseConfig EXCEPT !.static_host_map =
                StaticOf(GoodHost(InsideIP(3)),
                         StaticValue(GoodHost(OutsideIP(1)), <<"7", "0", "0", "0", "0">>))]
      [] d = "static_port_zero" ->
            [BaseConfig EXCEPT !.static_host_map =
                StaticOf(GoodHost(InsideIP(3)),
                         StaticValue(GoodHost(OutsideIP(1)), <<"6", "5", "5", "3", "6">>))]
      [] d = "static_no_colon" ->
            [BaseConfig EXCEPT !.static_host_map =
                StaticOf(GoodHost(InsideIP(3)), StaticNoColon(GoodHost(OutsideIP(1))))]
      [] d = "static_unresolvable" ->
            [BaseConfig EXCEPT !.static_host_map =
                StaticOf(GoodHost(InsideIP(3)), StaticValue(BadHost, GoodPort))]
      [] OTHER -> BaseConfig

Configs ==
    {WithSetting(d) : d \in SettingNames}
        \cup {[BaseConfig EXCEPT !.faults = {f}] : f \in FaultNames}

(***************************************************************************)
(* State.                                                                  *)
(***************************************************************************)
VARIABLES
    config,          \* Main's config argument
    configTest,      \* Main's configTest argument
    block,           \* Main's block argument
    commandChan,     \* TRUE iff Main's commandChan argument is not nil
    pc,              \* Main's position
    outcome,         \* how Main, or the process, has ended
    errAt,           \* the step that ended Main
    tun,             \* TRUE once a TUN device is open
    udpServer,       \* TRUE once the UDP listener is bound
    preferredRanges, \* Main's preferredRanges slice
    hostMap,         \* the main HostMap: created, preferredRanges, Hosts, lock
    lightHouse,      \* the LightHouse: created, hosts, remotes added at startup
    staticTodo,      \* static_host_map entries the range loop has not visited
    handshakeManager,\* the HandshakeManager: created, preferredRanges
    noiseEndianness, \* "unset", "big" or "little"
    cipherError,     \* TRUE once "Unknown cipher" has been logged
    ifce,            \* TRUE once NewInterface has returned an Interface
    started,         \* the workers that have been started
    cmdPc,           \* the command goroutine's position
    cmd,             \* the command goroutine's cmd variable
    sentCmds,        \* number of commands the embedding host has sent
    answered,        \* ids of the requests whose Callback got a reply
    handed,          \* ids of the exit requests shutdownBlock received
    sbPc,            \* shutdownBlock's position
    sbCmd,           \* shutdownBlock's cmd variable
    sig,             \* shutdownBlock's sig variable
    todo,            \* hosts the range loop of shutdownBlock has not visited
    closeSent,       \* closeTunnel messages emitted, per peer
    sending,         \* the context that is inside ifce.send ("none" if no one)
    packets,         \* packets the pipeline workers have processed
    stop             \* the stop condition the workers observe

vars ==
    <<config, configTest, block, commandChan, pc, outcome, errAt, tun, udpServer,
      preferredRanges, hostMap, lightHouse, staticTodo, handshakeManager,
      noiseEndianness, cipherError, ifce, started, cmdPc, cmd, sentCmds, answered,
      handed, sbPc, sbCmd, sig, todo, closeSent, sending, packets, stop>>

mainVars ==
    <<pc, outcome, errAt, tun, udpServer, preferredRanges, lightHouse, staticTodo,
      handshakeManager, noiseEndianness, cipherError, ifce>>
argVars == <<config, configTest, block, commandChan>>
workerVars == <<packets, stop>>
cmdVars == <<cmdPc, cmd, sentCmds>>
sbVars == <<sbPc, sbCmd, sig, todo, closeSent, sending, answered, handed>>

Peers == 1..NumPeers
NoCmd == [Command |-> "", Callback |-> FALSE, id |-> 0]

InitState ==
    /\ pc = "logfile"
    /\ outcome = "running"
    /\ errAt = "none"
    /\ tun = FALSE
    /\ udpServer = FALSE
    /\ preferredRanges = <<>>
    /\ hostMap = [created |-> FALSE, preferredRanges |-> <<>>,
                  Hosts |-> [p \in Peers |-> "none"], lock |-> "free"]
    /\ lightHouse = [created |-> FALSE, hosts |-> <<>>, remotes |-> {}]
    /\ staticTodo = {}
    /\ handshakeManager = [created |-> FALSE, preferredRanges |-> <<>>]
    /\ noiseEndianness = "unset"
    /\ cipherError = FALSE
    /\ ifce = FALSE
    /\ started = {}
    /\ cmdPc = "idle"
    /\ cmd = NoCmd
    /\ sentCmds = 0
    /\ answered = {}
    /\ handed = {}
    /\ sbPc = "idle"
    /\ sbCmd = NoCmd
    /\ sig = ""
    /\ todo = {}
    /\ closeSent = [p \in Peers |-> 0]
    /\ sending = "none"
    /\ packets = 0
    /\ stop = FALSE

Init ==
    /\ config \in Configs
    /\ configTest \in BOOLEAN
    /\ block \in BOOLEAN
    /\ commandChan \in BOOLEAN
    /\ InitState

(***************************************************************************)
(* Main.                                                                   *)
(***************************************************************************)
\* the process is alive: os.Exit, a logrus Fatal or a panic ends every goroutine
Alive == outcome \in {"running", "error", "returned"}

\* Main returns a formatted error
ReturnError(step) ==
    /\ outcome' = "error"
    /\ errAt' = step
    /\ pc' = pc

\* l.Fatal / l.Fatalf: the line is logged and the process exits non-zero
LogFatal(step) ==
    /\ outcome' = "fatal"
    /\ errAt' = step
    /\ pc' = pc

Continue(next) ==
    /\ pc' = next
    /\ UNCHANGED <<outcome, errAt>>

\* the configuration consumption above the "system modifying" line, in order
CheckOrder ==
    <<"logfile", "yaml", "logger", "ca", "cert", "firewall", "routes",
      "unsafe_routes", "sshd">>

\* the yaml dump happens under configTest only, configSSH only if sshd.enabled
Applies(step) ==
    CASE step = "yaml" -> configTest
      [] step = "sshd" -> config.sshd_enabled
      [] OTHER -> TRUE

Fails(step) == Applies(step) /\ step \in config.faults

AfterCheck(i) == IF i = Len(CheckOrder) THEN "tun" ELSE CheckOrder[i + 1]

\* log file, config dump, logger, CA, certificate, firewall, routes, sshd
MainCheck ==
    /\ outcome = "running"
    /\ \E i \in 1..Len(CheckOrder) :
        /\ pc = CheckOrder[i]
        /\ IF Fails(pc) THEN ReturnError(pc) ELSE Continue(AfterCheck(i))
    /\ UNCHANGED <<tun, udpServer, preferredRanges, lightHouse, staticTodo,
                   handshakeManager, noiseEndianness, cipherError, ifce>>
    /\ UNCHANGED <<argVars, hostMap, started, cmdVars, sbVars, workerVars>>

\* MainTun without the configTest guard
MainTun_InConfigTest ==
    /\ outcome = "running"
    /\ pc = "tun"
    /\ IF "tun" \in config.faults
       THEN ReturnError("tun") /\ UNCHANGED tun
       ELSE Continue("udp") /\ tun' = TRUE
    /\ UNCHANGED <<udpServer, preferredRanges, lightHouse, staticTodo,
                   handshakeManager, noiseEndianness, cipherError, ifce>>
    /\ UNCHANGED <<argVars, hostMap, started, cmdVars, sbVars, workerVars>>

\* newTunFromFd / newTun, skipped under configTest
MainTun ==
    /\ outcome = "running"
    /\ pc = "tun"
    /\ IF configTest
       THEN Continue("udp") /\ UNCHANGED tun
       ELSE IF "tun" \in config.faults
            THEN ReturnError("tun") /\ UNCHANGED tun
            ELSE Continue("udp") /\ tun' = TRUE
    /\ UNCHANGED <<udpServer, preferredRanges, lightHouse, staticTodo,
                   handshakeManager, noiseEndianness, cipherError, ifce>>
    /\ UNCHANGED <<argVars, hostMap, started, cmdVars, sbVars, workerVars>>

\* NewListener, skipped under configTest
MainListener ==
    /\ outcome = "running"
    /\ pc = "udp"
    /\ IF configTest
       THEN Continue("commands") /\ UNCHANGED udpServer
       ELSE IF "udp" \in config.faults
            THEN ReturnError("udp") /\ UNCHANGED udpServer
            ELSE Continue("commands") /\ udpServer' = TRUE
    /\ UNCHANGED <<tun, preferredRanges, lightHouse, staticTodo,
                   handshakeManager, noiseEndianness, cipherError, ifce>>
    /\ UNCHANGED <<argVars, hostMap, started, cmdVars, sbVars, workerVars>>

\* sigChan, killChan and the command goroutine
MainCommands ==
    /\ outcome = "running"
    /\ pc = "commands"
    /\ Continue("ranges")
    /\ IF commandChan
       THEN started' = started \cup {"commands"} /\ cmdPc' = "recv"
       ELSE UNCHANGED <<started, cmdPc>>
    /\ UNCHANGED <<tun, udpServer, preferredRanges, lightHouse, staticTodo,
                   handshakeManager, noiseEndianness, cipherError, ifce>>
    /\ UNCHANGED <<argVars, hostMap, cmd, sentCmds, sbVars, workerVars>>

\* the preferred_ranges loop: every raw entry goes through net.ParseCIDR
ParsePreferredRanges(raw) == [i \in 1..Len(raw) |-> ParseCIDR(raw[i])]

\* MergeLocalRange without the search for an equal entry
MergeLocalRange_AlwaysAppend(ranges, localRange) == Append(ranges, localRange)

\* the local_range block: append unless an entry has the same String()
MergeLocalRange(ranges, localRange) ==
    IF \E i \in 1..Len(ranges) : CidrString(ranges[i]) = CidrString(localRange)
    THEN ranges
    ELSE Append(ranges, localRange)

\* preferred_ranges and the deprecated local_range
MainRanges ==
    /\ outcome = "running"
    /\ pc = "ranges"
    /\ LET rawPreferredRanges == config.preferred_ranges
           rawLocalRange == config.local_range
       IN  IF \E i \in 1..Len(rawPreferredRanges) : ~rawPreferredRanges[i].ok
           THEN ReturnError("preferred_ranges") /\ UNCHANGED preferredRanges
           ELSE IF ~rawLocalRange.set
                THEN /\ Continue("hostmap")
                     /\ preferredRanges' = ParsePreferredRanges(rawPreferredRanges)
                ELSE IF ~rawLocalRange.ok
                     THEN ReturnError("local_range") /\ UNCHANGED preferredRanges
                     ELSE /\ Continue("hostmap")
                          /\ preferredRanges' =
                                MergeLocalRange(ParsePreferredRanges(rawPreferredRanges),
                                                ParseCIDR(rawLocalRange))
    /\ UNCHANGED <<tun, udpServer, lightHouse, staticTodo,
                   handshakeManager, noiseEndianness, cipherError, ifce>>
    /\ UNCHANGED <<argVars, hostMap, started, cmdVars, sbVars, workerVars>>

\* NewHostMap("main", tunCidr, preferredRanges)
MainHostMap ==
    /\ outcome = "running"
    /\ pc = "hostmap"
    /\ Continue("punchy")
    /\ hostMap' = [hostMap EXCEPT !.created = TRUE, !.preferredRanges = preferredRanges]
    /\ UNCHANGED <<tun, udpServer, preferredRanges, lightHouse, staticTodo,
                   handshakeManager, noiseEndianness, cipherError, ifce>>
    /\ UNCHANGED <<argVars, started, cmdVars, sbVars, workerVars>>

\* go hostMap.Punchy(udpServer)
MainPunchy ==
    /\ outcome = "running"
    /\ pc = "punchy"
    /\ Continue("port")
    /\ started' = IF config.punch /\ ~configTest THEN started \cup {"punchy"} ELSE started
    /\ UNCHANGED <<tun, udpServer, preferredRanges, lightHouse, staticTodo,
                   handshakeManager, noiseEndianness, cipherError, ifce>>
    /\ UNCHANGED <<argVars, hostMap, cmdVars, sbVars, workerVars>>

\* discovery of a dynamic listen port
MainPort ==
    /\ outcome = "running"
    /\ pc = "port"
    /\ IF config.listen_port_dynamic /\ ~configTest /\ "localaddr" \in config.faults
       THEN ReturnError("localaddr")
       ELSE Continue("lighthouse")
    /\ UNCHANGED <<tun, udpServer, preferredRanges, lightHouse, staticTodo,
                   handshakeManager, noiseEndianness, cipherError, ifce>>
    /\ UNCHANGED <<argVars, hostMap, started, cmdVars, sbVars, workerVars>>

\* MainLightHouse that rejects an entry only if it parses and is outside
MainLightHouse_NilPasses ==
    /\ outcome = "running"
    /\ pc = "lighthouse"
    /\ LET rawLighthouseHosts == config.lighthouse_hosts
       IN  IF \E i \in 1..Len(rawLighthouseHosts) :
                  /\ rawLighthouseHosts[i].ok
                  /\ ~Contains(tunCidr, ParseIP(rawLighthouseHosts[i]))
           THEN LogFatal("lighthouse.hosts") /\ UNCHANGED lightHouse
           ELSE /\ Continue("allowlists")
                /\ lightHouse' =
                     [lightHouse EXCEPT
                        !.created = TRUE,
                        !.hosts = [i \in 1..Len(rawLighthouseHosts) |->
                                     ParseIP(rawLighthouseHosts[i])]]
    /\ UNCHANGED <<tun, udpServer, preferredRanges, staticTodo,
                   handshakeManager, noiseEndianness, cipherError, ifce>>
    /\ UNCHANGED <<argVars, hostMap, started, cmdVars, sbVars, workerVars>>

\* lighthouse.hosts and NewLightHouse
MainLightHouse ==
    /\ outcome = "running"
    /\ pc = "lighthouse"
    /\ LET rawLighthouseHosts == config.lighthouse_hosts
       IN  IF \E i \in 1..Len(rawLighthouseHosts) :
                  ~Contains(tunCidr, ParseIP(rawLighthouseHosts[i]))
           THEN LogFatal("lighthouse.hosts") /\ UNCHANGED lightHouse
           ELSE /\ Continue("allowlists")
                /\ lightHouse' =
                     [lightHouse EXCEPT
                        !.created = TRUE,
                        !.hosts = [i \in 1..Len(rawLighthouseHosts) |->
                                     ParseIP(rawLighthouseHosts[i])]]
    /\ UNCHANGED <<tun, udpServer, preferredRanges, staticTodo,
                   handshakeManager, noiseEndianness, cipherError, ifce>>
    /\ UNCHANGED <<argVars, hostMap, started, cmdVars, sbVars, workerVars>>

\* lighthouse.remote_allow_list and lighthouse.local_allow_list
MainAllowLists ==
    /\ outcome = "running"
    /\ pc = "allowlists"
    /\ IF "remote_allow_list" \in config.faults
       THEN LogFatal("remote_allow_list") /\ UNCHANGED staticTodo
       ELSE IF "local_allow_list" \in config.faults
            THEN LogFatal("local_allow_list") /\ UNCHANGED staticTodo
            ELSE Continue("static") /\ staticTodo' = config.static_host_map
    /\ UNCHANGED <<tun, udpServer, preferredRanges, lightHouse,
                   handshakeManager, noiseEndianness, cipherError, ifce>>
    /\ UNCHANGED <<argVars, hostMap, started, cmdVars, sbVars, workerVars>>

\* one value of a static_host_map entry: the port that reaches NewUDPAddr
StaticPort(v) == Uint16(Atoi(v.port).val)

\* parts[1] of a value without a colon: index out of range
StaticPanics(v) == v.host.ok /\ ~v.hasPort

\* the values of an entry that are visited before the loop ends or panics
StaticVisited(vals) ==
    {i \in 1..Len(vals) : \A j \in 1..i : ~StaticPanics(vals[j])}

\* the remotes the values of one entry add: unresolvable hosts are skipped
StaticRemotes(vpnIp, vals) ==
    {[vpnIp |-> vpnIp, addr |-> NewUDPAddr(vals[i].host.ip, StaticPort(vals[i]))] :
        i \in {j \in StaticVisited(vals) : vals[j].host.ok}}

\* one iteration of the range over static_host_map (Go visits a map in any order)
MainStatic ==
    /\ outcome = "running"
    /\ pc = "static"
    /\ \E e \in staticTodo :
        LET vpnIp == ParseIP(e.key)
        IN  /\ staticTodo' = staticTodo \ {e}
            /\ IF ~Contains(tunCidr, vpnIp)
               THEN LogFatal("static_host_map") /\ UNCHANGED lightHouse
               ELSE /\ lightHouse' = [lightHouse EXCEPT
                            !.remotes = @ \cup StaticRemotes(vpnIp, e.vals)]
                    /\ IF \E i \in 1..Len(e.vals) : StaticPanics(e.vals[i])
                       THEN outcome' = "panic" /\ errAt' = "static_host_map" /\ pc' = pc
                       ELSE Continue("static")
    /\ UNCHANGED <<tun, udpServer, preferredRanges,
                   handshakeManager, noiseEndianness, cipherError, ifce>>
    /\ UNCHANGED <<argVars, hostMap, started, cmdVars, sbVars, workerVars>>

\* ValidateLHStaticEntries (an error is logged) and NewHandshakeManager
MainHandshake ==
    /\ outcome = "running"
    /\ pc = "static"
    /\ staticTodo = {}
    /\ Continue("cipher")
    /\ handshakeManager' = [created |-> TRUE, preferredRanges |-> preferredRanges]
    /\ UNCHANGED <<tun, udpServer, preferredRanges, lightHouse, staticTodo,
                   noiseEndianness, cipherError, ifce>>
    /\ UNCHANGED <<argVars, hostMap, started, cmdVars, sbVars, workerVars>>

\* the InterfaceConfig and the switch on its Cipher
MainCipher ==
    /\ outcome = "running"
    /\ pc = "cipher"
    /\ Continue("interface")
    /\ CASE config.cipher = "aes" ->
                noiseEndianness' = "big" /\ UNCHANGED cipherError
         [] config.cipher = "chachapoly" ->
                noiseEndianness' = "little" /\ UNCHANGED cipherError
         [] OTHER ->
                cipherError' = TRUE /\ UNCHANGED noiseEndianness
    /\ UNCHANGED <<tun, udpServer, preferredRanges, lightHouse, staticTodo,
                   handshakeManager, ifce>>
    /\ UNCHANGED <<argVars, hostMap, started, cmdVars, sbVars, workerVars>>

\* NewInterface and the handshake and lighthouse workers, skipped under configTest
MainInterface ==
    /\ outcome = "running"
    /\ pc = "interface"
    /\ IF configTest
       THEN Continue("stats") /\ UNCHANGED <<ifce, started>>
       ELSE IF "interface" \in config.faults
            THEN ReturnError("interface") /\ UNCHANGED <<ifce, started>>
            ELSE /\ Continue("stats")
                 /\ ifce' = TRUE
                 /\ started' = started \cup {"handshake", "lighthouse"}
    /\ UNCHANGED <<tun, udpServer, preferredRanges, lightHouse, staticTodo,
                   handshakeManager, noiseEndianness, cipherError>>
    /\ UNCHANGED <<argVars, hostMap, cmdVars, sbVars, workerVars>>

\* startStats (an error is logged), then os.Exit(0) under configTest
MainStats ==
    /\ outcome = "running"
    /\ pc = "stats"
    /\ IF configTest
       THEN outcome' = "exit0" /\ errAt' = "none" /\ pc' = pc
       ELSE Continue("run")
    /\ UNCHANGED <<tun, udpServer, preferredRanges, lightHouse, staticTodo,
                   handshakeManager, noiseEndianness, cipherError, ifce>>
    /\ UNCHANGED <<argVars, hostMap, started, cmdVars, sbVars, workerVars>>

\* go ifce.emitStats, attachCommands, ifce.Run: the packet pipelines start
MainRun ==
    /\ outcome = "running"
    /\ pc = "run"
    /\ Continue("block")
    /\ started' = started \cup {"stats", "pipelines"}
    /\ UNCHANGED <<tun, udpServer, preferredRanges, lightHouse, staticTodo,
                   handshakeManager, noiseEndianness, cipherError, ifce>>
    /\ UNCHANGED <<argVars, hostMap, cmdVars, sbVars, workerVars>>

\* shutdownBlock(...) when block, go shutdownBlock(...) and return nil otherwise
MainBlock ==
    /\ outcome = "running"
    /\ pc = "block"
    /\ sbPc' = "select"
    /\ IF block
       THEN Continue("shutdownBlock")
       ELSE outcome' = "returned" /\ errAt' = "none" /\ pc' = pc
    /\ UNCHANGED <<tun, udpServer, preferredRanges, lightHouse, staticTodo,
                   handshakeManager, noiseEndianness, cipherError, ifce>>
    /\ UNCHANGED <<argVars, hostMap, started, cmdVars, workerVars>>
    /\ UNCHANGED <<sbCmd, sig, todo, closeSent, sending, answered, handed>>

\* shutdownBlock has returned to a blocking Main, which returns nil
MainReturn ==
    /\ outcome = "running"
    /\ pc = "shutdownBlock"
    /\ sbPc = "done"
    /\ outcome' = "returned"
    /\ errAt' = "none"
    /\ pc' = pc
    /\ UNCHANGED <<tun, udpServer, preferredRanges, lightHouse, staticTodo,
                   handshakeManager, noiseEndianness, cipherError, ifce>>
    /\ UNCHANGED <<argVars, hostMap, started, cmdVars, sbVars, workerVars>>

MainNext ==
    \/ MainCheck
    \/ MainTun
    \/ MainListener
    \/ MainCommands
    \/ MainRanges
    \/ MainHostMap
    \/ MainPunchy
    \/ MainPort
    \/ MainLightHouse
    \/ MainAllowLists
    \/ MainStatic
    \/ MainHandshake
    \/ MainCipher
    \/ MainInterface
    \/ MainStats
    \/ MainRun
    \/ MainBlock
    \/ MainReturn

(***************************************************************************)
(* The command goroutine.                                                  *)
(***************************************************************************)
\* the requests the embedding host sends on commandChan
Commands ==
    {[Command |-> "rebind", Callback |-> FALSE],
     [Command |-> "exit", Callback |-> TRUE],
     [Command |-> "exit", Callback |-> FALSE]}

\* cmd = <-commandChan and the switch: "exit" goes on to killChan <- cmd,
\* "rebind" calls udpServer.Rebind(), which has no listener under configTest
CmdRecv ==
    /\ Alive
    /\ cmdPc = "recv"
    /\ sentCmds < MaxCmds
    /\ \E c \in Commands :
        /\ cmd' = [Command |-> c.Command, Callback |-> c.Callback, id |-> sentCmds + 1]
        /\ sentCmds' = sentCmds + 1
        /\ IF c.Command = "exit"
           THEN cmdPc' = "killChan" /\ UNCHANGED <<outcome, errAt>>
           ELSE /\ cmdPc' = "recv"
                /\ \/ UNCHANGED <<outcome, errAt>>
                   \/ /\ ~udpServer
                      /\ outcome' = "panic"
                      /\ errAt' = "rebind"
    /\ UNCHANGED <<pc, tun, udpServer, preferredRanges, lightHouse, staticTodo,
                   handshakeManager, noiseEndianness, cipherError, ifce>>
    /\ UNCHANGED <<argVars, hostMap, started, sbVars, workerVars>>

(***************************************************************************)
(* shutdownBlock.                                                          *)
(***************************************************************************)
Signals == {"terminated", "interrupt"}

\* select, case rawSig := <-sigChan
SbSignal ==
    /\ Alive
    /\ sbPc = "select"
    /\ \E rawSig \in Signals : sig' = rawSig
    /\ sbPc' = "lock"
    /\ UNCHANGED <<sbCmd, todo, closeSent, sending, answered, handed>>
    /\ UNCHANGED <<argVars, mainVars, hostMap, started, cmdVars, workerVars>>

\* select, case cmd = <-killChan: the rendezvous with the command goroutine
SbKill ==
    /\ Alive
    /\ sbPc = "select"
    /\ cmdPc = "killChan"
    /\ sbCmd' = cmd
    /\ sig' = "controlling app"
    /\ handed' = handed \cup {cmd.id}
    /\ cmdPc' = "recv"
    /\ sbPc' = "lock"
    /\ UNCHANGED <<todo, closeSent, sending, answered>>
    /\ UNCHANGED <<argVars, mainVars, hostMap, started, cmd, sentCmds, workerVars>>

\* ifce.hostMap.Lock() and the start of the range over Hosts
SbLock ==
    /\ Alive
    /\ sbPc = "lock"
    /\ hostMap.lock = "free"
    /\ hostMap' = [hostMap EXCEPT !.lock = "shutdownBlock"]
    /\ todo' = {p \in Peers : hostMap.Hosts[p] # "none"}
    /\ sbPc' = "range"
    /\ UNCHANGED <<sbCmd, sig, closeSent, sending, answered, handed>>
    /\ UNCHANGED <<argVars, mainVars, started, cmdVars, workerVars>>

\* h.ConnectionState.ready
Ready(h) == hostMap.Hosts[h] = "ready"

\* SbVisit without the test of h.ConnectionState.ready
SbVisit_SendsToAll ==
    /\ Alive
    /\ sbPc = "range"
    /\ \E h \in todo :
        /\ todo' = todo \ {h}
        /\ closeSent' = [closeSent EXCEPT ![h] = @ + 1]
        /\ sending' = "shutdownBlock"
        /\ sbPc' = "send"
    /\ UNCHANGED <<sbCmd, sig, answered, handed>>
    /\ UNCHANGED <<argVars, mainVars, hostMap, started, cmdVars, workerVars>>

\* one iteration of the range: a ready host enters ifce.send(closeTunnel, ...)
SbVisit ==
    /\ Alive
    /\ sbPc = "range"
    /\ \E h \in todo :
        /\ todo' = todo \ {h}
        /\ IF Ready(h)
           THEN /\ closeSent' = [closeSent EXCEPT ![h] = @ + 1]
                /\ sending' = "shutdownBlock"
                /\ sbPc' = "send"
           ELSE UNCHANGED <<closeSent, sending, sbPc>>
    /\ UNCHANGED <<sbCmd, sig, answered, handed>>
    /\ UNCHANGED <<argVars, mainVars, hostMap, started, cmdVars, workerVars>>

\* ifce.send returns
SbSent ==
    /\ Alive
    /\ sbPc = "send"
    /\ sending' = "none"
    /\ sbPc' = "range"
    /\ UNCHANGED <<sbCmd, sig, todo, closeSent, answered, handed>>
    /\ UNCHANGED <<argVars, mainVars, hostMap, started, cmdVars, workerVars>>

\* SbUnlock that leaves the lock held
SbUnlock_KeepsLock ==
    /\ Alive
    /\ sbPc = "range"
    /\ todo = {}
    /\ sbPc' = "goodbye"
    /\ UNCHANGED <<sbCmd, sig, todo, closeSent, sending, answered, handed>>
    /\ UNCHANGED <<argVars, mainVars, hostMap, started, cmdVars, workerVars>>

\* ifce.hostMap.Unlock() after the range
SbUnlock ==
    /\ Alive
    /\ sbPc = "range"
    /\ todo = {}
    /\ hostMap' = [hostMap EXCEPT !.lock = "free"]
    /\ sbPc' = "goodbye"
    /\ UNCHANGED <<sbCmd, sig, todo, closeSent, sending, answered, handed>>
    /\ UNCHANGED <<argVars, mainVars, started, cmdVars, workerVars>>

\* "Goodbye", then cmd.Callback <- nil if the request carries a Callback
SbReply ==
    /\ Alive
    /\ sbPc = "goodbye"
    /\ answered' = IF sbCmd.Callback THEN answered \cup {sbCmd.id} ELSE answered
    /\ sbPc' = "done"
    /\ UNCHANGED <<sbCmd, sig, todo, closeSent, sending, handed>>
    /\ UNCHANGED <<argVars, mainVars, hostMap, started, cmdVars, workerVars>>

(***************************************************************************)
(* The workers Main starts.  Their loops live outside this file: a worker  *)
(* needs the main HostMap (read lock for a packet, write lock to change a  *)
(* session) and is given no stop condition by Main or shutdownBlock.       *)
(***************************************************************************)
\* a pipeline worker processes one packet
WorkerPacket ==
    /\ Alive
    /\ "pipelines" \in started
    /\ ~stop
    /\ hostMap.lock = "free"
    /\ packets < MaxPackets
    /\ packets' = packets + 1
    /\ UNCHANGED <<argVars, mainVars, hostMap, started, cmdVars, sbVars, stop>>

\* the life of a session: created, made ready by a handshake, closed
NextSessionState(s) ==
    CASE s = "none" -> "pending"
      [] s = "pending" -> "ready"
      [] OTHER -> "none"

\* the handshake worker creates, completes or closes a session
WorkerSession ==
    /\ Alive
    /\ "handshake" \in started
    /\ ~stop
    /\ hostMap.lock = "free"
    /\ \E p \in Peers :
        hostMap' = [hostMap EXCEPT !.Hosts[p] = NextSessionState(@)]
    /\ UNCHANGED <<argVars, mainVars, started, cmdVars, sbVars, workerVars>>

Next ==
    \/ MainNext
    \/ CmdRecv
    \/ SbSignal
    \/ SbKill
    \/ SbLock
    \/ SbVisit
    \/ SbSent
    \/ SbUnlock
    \/ SbReply
    \/ WorkerPacket
    \/ WorkerSession

Spec == Init /\ [][Next]_vars

(***************************************************************************)
(* Start-up alone, over a wider set of range, lighthouse and static-map    *)
(* settings: Main from its first line up to the exit of a config test.     *)
(***************************************************************************)
\* longest preferred_ranges list
MaxRanges == 2
\* longest lighthouse.hosts list
MaxHosts == 2
\* most keys of a static_host_map
MaxStatic == 2

SeqsUpTo(S, n) == UNION {[1..k -> S] : k \in 0..n}

\* OutsideIP(2)/2 and OutsideIP(3)/2 name the same network
RawCidrs ==
    {GoodCidr(OutsideIP(2), 2), GoodCidr(OutsideIP(3), 2), GoodCidr(OutsideIP(0), AddrBits),
     GoodCidr(InsideIP(1), 1), BadCidr}

RangeConfigs ==
    {[BaseConfig EXCEPT !.preferred_ranges = r, !.local_range = l] :
        r \in SeqsUpTo(RawCidrs, MaxRanges),
        l \in {NoLocalRange} \cup {LocalRange(c) : c \in RawCidrs}}

RawHosts == {GoodHost(InsideIP(0)), GoodHost(InsideIP(2)), GoodHost(OutsideIP(0)), BadHost}

StaticValues ==
    {<<GoodValue>>,
     <<GoodValue, StaticValue(GoodHost(OutsideIP(2)), <<"a", "b", "c">>)>>,
     <<StaticValue(BadHost, GoodPort), StaticValue(GoodHost(OutsideIP(2)), <<"-", "1">>)>>,
     <<GoodValue, StaticNoColon(GoodHost(OutsideIP(2)))>>}

StaticMaps ==
    {m \in SUBSET {StaticEntry(k, TRUE, v) : k \in RawHosts, v \in StaticValues} :
        /\ Cardinality(m) <= MaxStatic
        /\ \A e1, e2 \in m : e1.key = e2.key => e1 = e2}

LightHouseConfigs ==
    {[BaseConfig EXCEPT !.lighthouse_hosts = h, !.static_host_map = m] :
        h \in SeqsUpTo(RawHosts, MaxHosts), m \in StaticMaps}

InitStartup ==
    /\ config \in RangeConfigs \cup LightHouseConfigs
    /\ configTest \in BOOLEAN
    /\ block = TRUE
    /\ commandChan = FALSE
    /\ InitState

StartupNext ==
    \/ MainCheck
    \/ MainTun
    \/ MainListener
    \/ MainCommands
    \/ MainRanges
    \/ MainHostMap
    \/ MainPunchy
    \/ MainPort
    \/ MainLightHouse
    \/ MainAllowLists
    \/ MainStatic
    \/ MainHandshake
    \/ MainCipher
    \/ MainInterface
    \/ MainStats

SpecStartup == InitStartup /\ [][StartupNext]_vars

(***************************************************************************)
(* Properties.                                                             *)
(***************************************************************************)
ValidCiphers == {"aes", "chachapoly"}
SystemWorkers == {"punchy", "handshake", "lighthouse", "stats", "pipelines"}

\* C1: shutdownBlock holds the main HostMap lock during its range over Hosts and
\* emits exactly one closeTunnel to every ready host it has visited and none to
\* any other host; nothing is emitted before the lock is taken, and the range is
\* over (no host left, no send in progress) before the lock is released, before
\* the Callback is answered and before shutdownBlock returns.
C1_CloseTunnelToEveryReadyHost ==
    /\ \A p \in Peers : closeSent[p] <= 1
    /\ sbPc \in {"idle", "select", "lock"} => \A p \in Peers : closeSent[p] = 0
    /\ sbPc \in {"range", "send"} =>
         /\ hostMap.lock = "shutdownBlock"
         /\ \A p \in Peers :
              closeSent[p] = IF hostMap.Hosts[p] = "ready" /\ p \notin todo THEN 1 ELSE 0
    /\ sbPc \in {"goodbye", "done"} => todo = {} /\ sending = "none"
    /\ answered # {} => sbPc = "done"

\* an exit command shut the node down: the range is over, a ready host got its
\* closeTunnel and a host that is not ready got none
C1_Witness ==
    /\ sbPc = "range"
    /\ todo = {}
    /\ sbCmd.Command = "exit"
    /\ \E p, q \in Peers :
         /\ hostMap.Hosts[p] = "ready" /\ closeSent[p] = 1
         /\ hostMap.Hosts[q] = "pending" /\ closeSent[q] = 0

\* C2, as claimed: a context inside a UDP send does not hold the main HostMap
\* write lock.
C2_NoSendUnderWriteLock == sending # "none" => hostMap.lock # sending

\* C2, amended: the closeTunnel sends of shutdownBlock are the only sends of the
\* bootstrap and are made while shutdownBlock holds the main HostMap write lock;
\* the lock is held only by shutdownBlock and only during its range over Hosts,
\* so it is free again before "Goodbye" and the reply on the Callback.
C2_SendUnderLockOnlyInShutdownRange ==
    /\ hostMap.lock # "free" =>
         hostMap.lock = "shutdownBlock" /\ sbPc \in {"range", "send"}
    /\ sending # "none" =>
         sending = "shutdownBlock" /\ sbPc = "send" /\ hostMap.lock = "shutdownBlock"

\* shutdownBlock is inside ifce.send with the lock held
C2_Witness == sbPc = "send" /\ sending = "shutdownBlock" /\ hostMap.lock = "shutdownBlock"

\* C3: with a cipher that is neither aes nor chachapoly Main ends in a start-up
\* error and never creates the Interface or starts the handshake, lighthouse or
\* pipeline workers.
C3_InvalidCipherIsFatal ==
    config.cipher \notin ValidCiphers =>
        /\ outcome \notin {"exit0", "returned"}
        /\ pc \notin {"stats", "run", "block", "shutdownBlock"}
        /\ ~ifce
        /\ started \cap {"handshake", "lighthouse", "pipelines"} = {}

\* C4: an exit request that waits on killChan can still be received: once
\* shutdownBlock has been started it is still at its select.
C4_ExitNeverStuckOnKillChan ==
    (cmdPc = "killChan" /\ sbPc # "idle") => sbPc = "select"

\* shutdownBlock has released the lock, and this step neither processes a packet
\* nor creates a session nor makes one ready
QuietAfterShutdown ==
    sbPc \in {"goodbye", "done"} =>
        /\ packets' = packets
        /\ \A p \in Peers :
             hostMap'.Hosts[p] # hostMap.Hosts[p] => hostMap'.Hosts[p] = "none"

\* C5: once shutdownBlock has released the main HostMap lock, no worker
\* processes another packet and no session is created or made ready.
C5_WorkersStopAfterShutdown == [][QuietAfterShutdown]_vars

\* what a config test leaves untouched
NoSystemChange ==
    /\ ~tun
    /\ ~udpServer
    /\ ~ifce
    /\ started \cap SystemWorkers = {}

\* every check Main makes of the configuration passes
ConfigChecksPass ==
    /\ \A i \in 1..Len(CheckOrder) : ~Fails(CheckOrder[i])
    /\ \A i \in 1..Len(config.preferred_ranges) : config.preferred_ranges[i].ok
    /\ config.local_range.set => config.local_range.ok
    /\ \A i \in 1..Len(config.lighthouse_hosts) :
         config.lighthouse_hosts[i].ok
            /\ MaskIP(config.lighthouse_hosts[i].ip, tunCidr.bits)
                 = MaskIP(tunCidr.ip, tunCidr.bits)
    /\ config.faults \cap {"remote_allow_list", "local_allow_list"} = {}
    /\ \A e \in config.static_host_map :
         e.key.ok /\ MaskIP(e.key.ip, tunCidr.bits) = MaskIP(tunCidr.ip, tunCidr.bits)

\* what only a real start attempts succeeds too
RealStartWouldAccept ==
    /\ config.faults \cap {"tun", "udp", "interface"} = {}
    /\ config.listen_port_dynamic => "localaddr" \notin config.faults

\* C6, as claimed: a config test changes nothing, and it exits 0 only for a
\* configuration a real start accepts too, no start-up-fatal error passed over.
C6_TestExitsZeroOnlyIfStartable ==
    /\ configTest => NoSystemChange
    /\ (configTest /\ outcome = "exit0") => ConfigChecksPass /\ RealStartWouldAccept

\* C6, amended: a config test never opens a TUN device, binds a listener, creates
\* the Interface or starts a worker, and it exits 0 only for a configuration that
\* passes every check of the configuration Main makes; what only a real start
\* attempts (TUN, listener, port discovery, Interface) and the cipher value are
\* not covered by the exit code.
C6_TestChangesNothingAndChecksConfig ==
    /\ configTest => NoSystemChange
    /\ (configTest /\ outcome = "exit0") => ConfigChecksPass

\* a config test of the valid base configuration has exited 0
C6_Witness == configTest /\ outcome = "exit0" /\ config = BaseConfig

\* C7: every remote added from static_host_map has a port in 1..65535 that is
\* the number written in the configuration.
C7_StaticPortsAsConfigured ==
    \A r \in lightHouse.remotes :
        /\ r.addr.port \in 1..(PortModulus - 1)
        /\ \E e \in config.static_host_map : \E i \in 1..Len(e.vals) :
              /\ e.vals[i].hasPort
              /\ AllDigits(e.vals[i].port)
              /\ DigitsVal(e.vals[i].port) = r.addr.port

\* the canonical form of a raw CIDR
Canon(raw) == CidrString(ParseCIDR(raw))

\* how often a canonical CIDR occurs in a list of parsed ranges
Occurrences(list, c) == Cardinality({i \in 1..Len(list) : CidrString(list[i]) = c})

\* preferred_ranges in order, then local_range iff set and not yet listed
ExpectedRanges ==
    LET raw == config.preferred_ranges
        parsed == [i \in 1..Len(raw) |-> ParseCIDR(raw[i])]
    IN  IF /\ config.local_range.set
           /\ \A i \in 1..Len(raw) : Canon(raw[i]) # Canon(config.local_range)
        THEN parsed \o <<ParseCIDR(config.local_range)>>
        ELSE parsed

\* C8, as claimed: the list is preferred_ranges followed by local_range iff it
\* is set and not listed, local_range never appears twice, merging again
\* changes nothing.
C8_LocalRangeMergedOnce ==
    hostMap.created =>
        /\ hostMap.preferredRanges = ExpectedRanges
        /\ config.local_range.set =>
             /\ Occurrences(hostMap.preferredRanges, Canon(config.local_range)) = 1
             /\ MergeLocalRange(hostMap.preferredRanges, ParseCIDR(config.local_range))
                  = hostMap.preferredRanges
        /\ handshakeManager.created =>
             handshakeManager.preferredRanges = hostMap.preferredRanges

\* C8, amended: the list given to the HostMap and the HandshakeManager is
\* preferred_ranges in order, followed by local_range iff it is set and no entry
\* has the same canonical CIDR; the merge adds at most one occurrence of
\* local_range, which is in the list once or as often as preferred_ranges
\* already lists it; merging the same local_range again changes nothing.
C8_LocalRangeMerged ==
    hostMap.created =>
        /\ hostMap.preferredRanges = ExpectedRanges
        /\ config.local_range.set =>
             LET c == Canon(config.local_range)
                 listed == Cardinality({i \in 1..Len(config.preferred_ranges) :
                                          Canon(config.preferred_ranges[i]) = c})
             IN  /\ Occurrences(hostMap.preferredRanges, c)
                      = IF listed = 0 THEN 1 ELSE listed
                 /\ MergeLocalRange(hostMap.preferredRanges, ParseCIDR(config.local_range))
                      = hostMap.preferredRanges
        /\ handshakeManager.created =>
             handshakeManager.preferredRanges = hostMap.preferredRanges

\* a local_range written differently from a preferred range of the same network
\* was not appended
C8_Witness ==
    /\ handshakeManager.created
    /\ config.local_range.set
    /\ Len(hostMap.preferredRanges) = Len(config.preferred_ranges)
    /\ \E i \in 1..Len(config.preferred_ranges) :
         /\ Canon(config.preferred_ranges[i]) = Canon(config.local_range)
         /\ config.preferred_ranges[i].ip # config.local_range.ip

\* the steps at which Main fails on the content of the configuration
ConfigErrorSteps ==
    {"ca", "cert", "firewall", "routes", "unsafe_routes", "sshd", "preferred_ranges",
     "local_range", "lighthouse.hosts", "remote_allow_list", "local_allow_list",
     "static_host_map"}

\* C9: when Main fails on a configuration parse or validation error, no TUN
\* device is open and no UDP listener is bound.
C9_ConfigErrorsBeforeSystemChange ==
    (outcome \in {"error", "fatal"} /\ errAt \in ConfigErrorSteps) => ~tun /\ ~udpServer

\* a raw host text names an address of the node's subnet
InSubnet(raw) ==
    raw.ok /\ MaskIP(raw.ip, tunCidr.bits) = MaskIP(tunCidr.ip, tunCidr.bits)

\* C10: the LightHouse is created only if every lighthouse.hosts entry parses and
\* lies in the subnet, a remote is added only for a static_host_map key in the
\* subnet, and Main gets past the static map only if every key is in the subnet;
\* an entry outside ends start-up with a fatal exit.
C10_LighthouseIpsInSubnet ==
    /\ lightHouse.created =>
         \A i \in 1..Len(config.lighthouse_hosts) : InSubnet(config.lighthouse_hosts[i])
    /\ \A r \in lightHouse.remotes :
         /\ ~r.vpnIp.nil
         /\ InSubnet(GoodHost(r.vpnIp.ip))
         /\ \E e \in config.static_host_map : e.key = GoodHost(r.vpnIp.ip)
    /\ handshakeManager.created =>
         \A e \in config.static_host_map : InSubnet(e.key)
    /\ (\E i \in 1..Len(config.lighthouse_hosts) : ~InSubnet(config.lighthouse_hosts[i])) =>
         /\ pc \in {"lighthouse"} \cup {CheckOrder[i] : i \in 1..Len(CheckOrder)}
                \cup {"tun", "udp", "commands", "ranges", "hostmap", "punchy", "port"}
         /\ (pc = "lighthouse" /\ outcome # "running") => outcome = "fatal"

\* a key outside the subnet ended start-up after another key had added a remote
C10_Witness ==
    /\ outcome = "fatal"
    /\ errAt = "static_host_map"
    /\ lightHouse.created
    /\ lightHouse.remotes # {}

====
